---- MODULE Spec2Model ----
(***************************************************************************)
(* Model of examples/hyperparameter-optimization.ipynb: a notebook that    *)
(* tunes five hyper-parameters of a GradientBoostingRegressor with         *)
(* gp_minimize.  The notebook's own statements (dataset, estimator, space, *)
(* objective, optimizer call, printing, plotting) are modelled from the    *)
(* notebook; gp_minimize and use_named_args belong to the library the      *)
(* notebook demonstrates and are modelled from their documented contract.  *)
(*                                                                         *)
(* Numbers: learning_rate is a real; it is kept in units of 1e-7 so that   *)
(* the "%.6f" of the print cell is a real rounding.  An objective value is *)
(* a rational [num, den].                                                  *)
(***************************************************************************)
EXTENDS Integers, Sequences, FiniteSets, TLC

VARIABLES
    ip,              \* index in Cells of the next notebook statement
    pc,              \* where control is: "notebook", inside gp_minimize, or "error"
    executed,        \* the notebook statements completed so far, in order
    defined,         \* names bound in the kernel namespace
    reg,             \* parameters of the shared estimator reg
    x_cur,           \* the point of the objective call in progress
    clones,          \* clones[k]: parameters of the clone fitted for fold k
    fold_state,      \* fold k: "pending", "running", "done" or "raised"
    scores,          \* scores[k]: neg_mean_absolute_error of fold k once done
    y_cur,           \* value returned by the objective call in progress
    n_started,       \* objective calls entered
    n_evals,         \* objective calls that returned a value
    observed,        \* the optimizer's record: set of <<point, value>>
    last_x,          \* point of the most recent completed objective call
    res_gp,          \* the result bound by cell 10
    shown,           \* outputs produced: "best_score", "best_params", "convergence"
    best_params_out  \* lines printed by cell 11: sequence of <<label, value>>

vars == <<ip, pc, executed, defined, reg, x_cur, clones, fold_state, scores,
          y_cur, n_started, n_evals, observed, last_x, res_gp, shown,
          best_params_out>>

----------------------------------------------------------------------------
(* Program constants                                                       *)

\* X.shape[1] of the Boston data (13 columns; the recorded best has max_features=13)
n_features == 13

\* cross_val_score(..., cv=5, ...)
cv == 5

\* mutant: the loop stops one call early
n_calls_short == 50 - 1

\* gp_minimize(..., n_calls=50, ...)
n_calls == 50

\* one unit of learning_rate is 1e-7
LrUnit == 10 ^ 7

\* GradientBoostingRegressor(n_estimators=50, random_state=0); the other five
\* parameters keep the constructor defaults (max_features=None is written 0).
GradientBoostingRegressor ==
    [n_estimators |-> 50, random_state |-> 0,
     max_depth |-> 3, learning_rate |-> LrUnit \div 10, max_features |-> 0,
     min_samples_split |-> 2, min_samples_leaf |-> 1]

\* mutant: min_samples_split may be 1
space_loose ==
    << [kind |-> "Integer", low |-> 1, high |-> 5, name |-> "max_depth"],
       [kind |-> "Real", low |-> LrUnit \div 100000, high |-> LrUnit,
        name |-> "learning_rate"],
       [kind |-> "Integer", low |-> 1, high |-> n_features, name |-> "max_features"],
       [kind |-> "Integer", low |-> 1, high |-> 100, name |-> "min_samples_split"],
       [kind |-> "Integer", low |-> 1, high |-> 100, name |-> "min_samples_leaf"] >>

\* mutant: the names of the last two dimensions are exchanged
space_swapped_names ==
    << [kind |-> "Integer", low |-> 1, high |-> 5, name |-> "max_depth"],
       [kind |-> "Real", low |-> LrUnit \div 100000, high |-> LrUnit,
        name |-> "learning_rate"],
       [kind |-> "Integer", low |-> 1, high |-> n_features, name |-> "max_features"],
       [kind |-> "Integer", low |-> 2, high |-> 100, name |-> "min_samples_leaf"],
       [kind |-> "Integer", low |-> 1, high |-> 100, name |-> "min_samples_split"] >>

\* the list of dimensions, in the order of the notebook
space ==
    << [kind |-> "Integer", low |-> 1, high |-> 5, name |-> "max_depth"],
       [kind |-> "Real", low |-> LrUnit \div 100000, high |-> LrUnit,
        name |-> "learning_rate"],
       [kind |-> "Integer", low |-> 1, high |-> n_features, name |-> "max_features"],
       [kind |-> "Integer", low |-> 2, high |-> 100, name |-> "min_samples_split"],
       [kind |-> "Integer", low |-> 1, high |-> 100, name |-> "min_samples_leaf"] >>

\* mutant: the estimator is constructed after the objective is defined
Cells_estimator_late ==
    << "load", "def_space", "def_objective", "make_reg", "call_gp",
       "show_score", "print_params", "plot" >>

\* the notebook's statements in execution order
Cells == << "load", "make_reg", "def_space", "def_objective", "call_gp",
            "show_score", "print_params", "plot" >>

\* names a statement reads when it runs (an unbound one is a NameError)
Needs(stmt) ==
    CASE stmt = "load"          -> {}
      [] stmt = "make_reg"      -> {}
      [] stmt = "def_space"     -> {"n_features"}
      [] stmt = "def_objective" -> {"space"}
      [] stmt = "call_gp"       -> {"objective", "space"}
      [] stmt = "show_score"    -> {"res_gp"}
      [] stmt = "print_params"  -> {"res_gp"}
      [] stmt = "plot"          -> {"res_gp"}

\* mutant: objective wraps its body in a try/except and starts over
TryBlocks_retry == {"objective"}

\* frames of the notebook's own code that hold a try/except: none
TryBlocks == {}

----------------------------------------------------------------------------
(* Pure helpers                                                            *)

RECURSIVE SumSeq(_)
SumSeq(s) == IF s = <<>> THEN 0 ELSE s[1] + SumSeq(Tail(s))

\* np.mean of a non-empty sequence, as a rational
Mean(s) == [num |-> SumSeq(s), den |-> Len(s)]

Neg(q) == [num |-> -q.num, den |-> q.den]

\* q1 < q2 for rationals with positive denominators
Less(q1, q2) == q1.num * q2.den < q2.num * q1.den

\* "%.6f" of a value kept in units of 1e-7: rounded to units of 1e-6
Fmt6f(v) == (v + 5) \div 10

\* use_named_args(space): the positional point becomes keyword arguments
use_named_args(dims, x) ==
    [n \in {dims[i].name : i \in 1..Len(dims)} |->
        x[CHOOSE i \in 1..Len(dims) : dims[i].name = n]]

\* mutant: a parameter already moved away from its constructor value is kept
set_params_sticky(est, params) ==
    IF DOMAIN params \subseteq DOMAIN est
    THEN [ok |-> TRUE,
          est |-> [n \in DOMAIN est |->
                     IF n \in DOMAIN params /\ est[n] = GradientBoostingRegressor[n]
                     THEN params[n] ELSE est[n]]]
    ELSE [ok |-> FALSE, est |-> est]

\* mutant: parameters that are not named fall back to the library defaults
\* (n_estimators=100, random_state=None written 0)
set_params_rebuild(est, params) ==
    IF DOMAIN params \subseteq DOMAIN est
    THEN [ok |-> TRUE,
          est |-> [n \in DOMAIN est |->
                     IF n \in DOMAIN params THEN params[n]
                     ELSE IF n = "n_estimators" THEN 100 ELSE 0]]
    ELSE [ok |-> FALSE, est |-> est]

\* BaseEstimator.set_params: every keyword must name a parameter of the
\* estimator (else ValueError); each named parameter is overwritten.
set_params(est, params) ==
    IF DOMAIN params \subseteq DOMAIN est
    THEN [ok |-> TRUE,
          est |-> [n \in DOMAIN est |-> IF n \in DOMAIN params THEN params[n] ELSE est[n]]]
    ELSE [ok |-> FALSE, est |-> est]

\* Mean absolute error of the estimator with parameters p, fitted on the
\* training part of fold k and scored on its test part.  The data and the
\* seed are fixed, so the error is a function of the parameters and the fold;
\* the function itself is a deterministic stand-in that reads all of them.
FoldMAE(p, k) ==
    ( p.max_depth * 3
    + (p.learning_rate \div 100) * 5
    + (IF p.max_features = 0 THEN n_features ELSE p.max_features) * 7
    + p.min_samples_split * 11
    + p.min_samples_leaf * 13
    + p.n_estimators * 17
    + p.random_state * 19
    + k * 23 ) % 101

\* scoring="neg_mean_absolute_error"
neg_mean_absolute_error(p, k) == -FoldMAE(p, k)

\* mutant: the sign is forgotten
objective_value_unnegated(fold_scores) == Mean(fold_scores)

\* return -np.mean(cross_val_score(...))
objective_value(fold_scores) == Neg(Mean(fold_scores))

\* points the optimizer may propose: the two corners of the space and the
\* best point recorded in the notebook's output
LowPoint == [i \in 1..Len(space) |-> space[i].low]
HighPoint == [i \in 1..Len(space) |-> space[i].high]
RecordedBest == <<2, 1578304, 13, 2, 1>>

\* number of further points, each j steps inside the low corner (a Real
\* dimension is log-uniform: one step is a factor of ten)
ExtraPoints == 0

Clip(d, v) == IF v > d.high THEN d.high ELSE v
InnerPoint(j) ==
    [i \in 1..Len(space) |->
        Clip(space[i], IF space[i].kind = "Real"
                       THEN space[i].low * (10 ^ j)
                       ELSE space[i].low + j)]

Candidates ==
    {LowPoint, HighPoint, RecordedBest} \cup {InnerPoint(j) : j \in 1..ExtraPoints}

\* mutant: any recorded pair is reported
create_result_any(obs) == { [x |-> o[1], fun |-> o[2]] : o \in obs }

\* the result of a run: a recorded pair with the least value
create_result(obs) ==
    { [x |-> o[1], fun |-> o[2]] :
        o \in {p \in obs : \A q \in obs : ~Less(q[2], p[2])} }

NoResult == [x |-> <<>>, fun |-> [num |-> 0, den |-> 1]]
NoFolds == [k \in 1..cv |-> "pending"]
NoScores == [k \in 1..cv |-> 0]

\* mutant: cross_val_score returns as soon as one fold has a score
cross_val_done_first(fs) == \E k \in 1..cv : fs[k] = "done"

\* cross_val_score returns once every fold has produced its score
cross_val_done(fs) == \A k \in 1..cv : fs[k] = "done"

----------------------------------------------------------------------------
(* State machine                                                           *)

Init ==
    /\ ip = 1
    /\ pc = "notebook"
    /\ executed = <<>>
    /\ defined = {}
    /\ reg = GradientBoostingRegressor
    /\ x_cur = <<>>
    /\ clones = <<>>
    /\ fold_state = NoFolds
    /\ scores = NoScores
    /\ y_cur = NoResult.fun
    /\ n_started = 0
    /\ n_evals = 0
    /\ observed = {}
    /\ last_x = <<>>
    /\ res_gp = NoResult
    /\ shown = {}
    /\ best_params_out = <<>>

At(stmt) == pc = "notebook" /\ ip <= Len(Cells) /\ Cells[ip] = stmt

\* the statement completed: control moves to the next one
Completed(stmt) ==
    /\ ip' = ip + 1
    /\ executed' = Append(executed, stmt)

\* an exception reached the top of the cell: the run stops there
CellFails ==
    /\ pc' = "error"
    /\ UNCHANGED <<ip, executed>>

\* a statement runs `effect` if every name it reads is bound, else NameError
Statement(stmt, effect) ==
    /\ At(stmt)
    /\ IF Needs(stmt) \subseteq defined
       THEN effect
       ELSE /\ CellFails
            /\ UNCHANGED <<defined, reg, x_cur, clones, fold_state, scores, y_cur,
                           n_started, n_evals, observed, last_x, res_gp, shown,
                           best_params_out>>

\* boston = load_boston(); X, y = ...; n_features = X.shape[1]
LoadDataset ==
    Statement("load",
        /\ defined' = defined \cup {"boston", "X", "y", "n_features"}
        /\ Completed("load")
        /\ UNCHANGED <<pc, reg, x_cur, clones, fold_state, scores, y_cur, n_started,
                       n_evals, observed, last_x, res_gp, shown, best_params_out>>)

\* reg = GradientBoostingRegressor(n_estimators=50, random_state=0)
ConstructEstimator ==
    Statement("make_reg",
        /\ reg' = GradientBoostingRegressor
        /\ defined' = defined \cup {"reg"}
        /\ Completed("make_reg")
        /\ UNCHANGED <<pc, x_cur, clones, fold_state, scores, y_cur, n_started,
                       n_evals, observed, last_x, res_gp, shown, best_params_out>>)

\* space = [Integer(...), Real(...), ...]
DeclareSpace ==
    Statement("def_space",
        /\ defined' = defined \cup {"space"}
        /\ Completed("def_space")
        /\ UNCHANGED <<pc, reg, x_cur, clones, fold_state, scores, y_cur, n_started,
                       n_evals, observed, last_x, res_gp, shown, best_params_out>>)

\* @use_named_args(space) def objective(**params): ...
DefineObjective ==
    Statement("def_objective",
        /\ defined' = defined \cup {"objective"}
        /\ Completed("def_objective")
        /\ UNCHANGED <<pc, reg, x_cur, clones, fold_state, scores, y_cur, n_started,
                       n_evals, observed, last_x, res_gp, shown, best_params_out>>)

\* res_gp = gp_minimize(objective, space, n_calls=50, random_state=0): the call
CallGpMinimize ==
    Statement("call_gp",
        /\ pc' = "ask"
        /\ observed' = {}
        /\ UNCHANGED <<ip, executed, defined, reg, x_cur, clones, fold_state, scores,
                       y_cur, n_started, n_evals, last_x, res_gp, shown,
                       best_params_out>>)

\* the optimizer proposes the next point and calls objective with it
Ask ==
    /\ pc = "ask"
    /\ \E x \in Candidates : x_cur' = x
    /\ n_started' = n_started + 1
    /\ pc' = "call"
    /\ UNCHANGED <<ip, executed, defined, reg, clones, fold_state, scores, y_cur,
                   n_evals, observed, last_x, res_gp, shown, best_params_out>>

\* an exception inside objective: caught only by a try block of the notebook
RaiseInObjective ==
    IF "objective" \in TryBlocks
    THEN pc' = "call" /\ UNCHANGED <<ip, executed>>
    ELSE CellFails

\* reg.set_params(**params)
ObjectiveSetParams ==
    /\ pc = "call"
    /\ LET r == set_params(reg, use_named_args(space, x_cur)) IN
         IF {"reg"} \subseteq defined /\ r.ok
         THEN /\ reg' = r.est
              /\ pc' = "cv_enter"
              /\ UNCHANGED <<ip, executed>>
         ELSE /\ RaiseInObjective
              /\ UNCHANGED reg
    /\ UNCHANGED <<defined, x_cur, clones, fold_state, scores, y_cur, n_started,
                   n_evals, observed, last_x, res_gp, shown, best_params_out>>

\* cross_val_score(reg, X, y, cv=5, n_jobs=-1, ...) is entered: five folds to run
CrossValScore ==
    /\ pc = "cv_enter"
    /\ IF {"X", "y"} \subseteq defined
       THEN /\ pc' = "cv"
            /\ clones' = <<>>
            /\ fold_state' = NoFolds
            /\ scores' = NoScores
            /\ UNCHANGED <<ip, executed>>
       ELSE /\ RaiseInObjective
            /\ UNCHANGED <<clones, fold_state, scores>>
    /\ UNCHANGED <<defined, reg, x_cur, y_cur, n_started, n_evals, observed,
                   last_x, res_gp, shown, best_params_out>>

\* the next fold is dispatched to a worker with a clone of reg
FoldStart ==
    /\ pc = "cv"
    /\ Len(clones) < cv
    /\ clones' = Append(clones, reg)
    /\ fold_state' = [fold_state EXCEPT ![Len(clones) + 1] = "running"]
    /\ UNCHANGED <<ip, pc, executed, defined, reg, x_cur, scores, y_cur, n_started,
                   n_evals, observed, last_x, res_gp, shown, best_params_out>>

\* a worker finishes its fold: fit on the training part, score on the test part
FoldFinish(k) ==
    /\ fold_state[k] = "running"
    /\ fold_state' = [fold_state EXCEPT ![k] = "done"]
    /\ scores' = [scores EXCEPT ![k] = neg_mean_absolute_error(clones[k], k)]
    /\ UNCHANGED <<ip, pc, executed, defined, reg, x_cur, clones, y_cur, n_started,
                   n_evals, observed, last_x, res_gp, shown, best_params_out>>

\* a worker fails: the exception surfaces in cross_val_score, inside objective
FoldRaise(k) ==
    /\ pc = "cv"
    /\ fold_state[k] = "running"
    /\ fold_state' = [fold_state EXCEPT ![k] = "raised"]
    /\ RaiseInObjective
    /\ UNCHANGED <<defined, reg, x_cur, clones, scores, y_cur, n_started, n_evals,
                   observed, last_x, res_gp, shown, best_params_out>>

\* return -np.mean(<the five scores>)
ObjectiveReturn ==
    /\ pc = "cv"
    /\ cross_val_done(fold_state)
    /\ y_cur' = objective_value(scores)
    /\ pc' = "tell"
    /\ UNCHANGED <<ip, executed, defined, reg, x_cur, clones, fold_state, scores,
                   n_started, n_evals, observed, last_x, res_gp, shown,
                   best_params_out>>

\* the optimizer records the value; after n_calls values it stops
Tell ==
    /\ pc = "tell"
    /\ observed' = observed \cup {<<x_cur, y_cur>>}
    /\ last_x' = x_cur
    /\ n_evals' = n_evals + 1
    /\ pc' = IF n_evals + 1 >= n_calls THEN "return" ELSE "ask"
    /\ UNCHANGED <<ip, executed, defined, reg, x_cur, clones, fold_state, scores,
                   y_cur, n_started, res_gp, shown, best_params_out>>

\* gp_minimize returns and the assignment binds res_gp
GpReturn ==
    /\ pc = "return"
    /\ \E r \in create_result(observed) : res_gp' = r
    /\ defined' = defined \cup {"res_gp"}
    /\ pc' = "notebook"
    /\ Completed("call_gp")
    /\ UNCHANGED <<reg, x_cur, clones, fold_state, scores, y_cur, n_started,
                   n_evals, observed, last_x, shown, best_params_out>>

\* "Best score=%.4f" % res_gp.fun
ShowBestScore ==
    Statement("show_score",
        /\ shown' = shown \cup {"best_score"}
        /\ Completed("show_score")
        /\ UNCHANGED <<pc, defined, reg, x_cur, clones, fold_state, scores, y_cur,
                       n_started, n_evals, observed, last_x, res_gp,
                       best_params_out>>)

\* the five lines of cell 11, in the order of the format string
print_best_params(x) ==
    << <<"max_depth", x[1]>>,
       <<"learning_rate", Fmt6f(x[2])>>,
       <<"max_features", x[3]>>,
       <<"min_samples_split", x[4]>>,
       <<"min_samples_leaf", x[5]>> >>

\* print("""Best parameters: ...""" % (res_gp.x[0], ..., res_gp.x[4]))
PrintBestParams ==
    Statement("print_params",
        /\ best_params_out' = print_best_params(res_gp.x)
        /\ shown' = shown \cup {"best_params"}
        /\ Completed("print_params")
        /\ UNCHANGED <<pc, defined, reg, x_cur, clones, fold_state, scores, y_cur,
                       n_started, n_evals, observed, last_x, res_gp>>)

\* plot_convergence(res_gp)
PlotConvergence ==
    Statement("plot",
        /\ shown' = shown \cup {"convergence"}
        /\ Completed("plot")
        /\ UNCHANGED <<pc, defined, reg, x_cur, clones, fold_state, scores, y_cur,
                       n_started, n_evals, observed, last_x, res_gp,
                       best_params_out>>)

Next ==
    \/ LoadDataset
    \/ ConstructEstimator
    \/ DeclareSpace
    \/ DefineObjective
    \/ CallGpMinimize
    \/ Ask
    \/ ObjectiveSetParams
    \/ CrossValScore
    \/ FoldStart
    \/ \E k \in 1..cv : FoldFinish(k)
    \/ \E k \in 1..cv : FoldRaise(k)
    \/ ObjectiveReturn
    \/ Tell
    \/ GpReturn
    \/ ShowBestScore
    \/ PrintBestParams
    \/ PlotConvergence

Spec == Init /\ [][Next]_vars

\* every fold fit terminates and the kernel keeps running the next step
FairSpec == Spec /\ WF_vars(Next)

----------------------------------------------------------------------------
(* Properties                                                              *)

\* the estimator parameters the notebook would have after objective(x) on a
\* freshly constructed reg, written out name by name
ParamsAt(x) ==
    [n_estimators |-> 50, random_state |-> 0,
     max_depth |-> x[1], learning_rate |-> x[2], max_features |-> x[3],
     min_samples_split |-> x[4], min_samples_leaf |-> x[5]]

SomeFoldRunning == \E k \in 1..cv : fold_state[k] = "running"

\* C1: one call objective(x) sets the parameters to x before any fold is
\* fitted, fits five folds with exactly those parameters, and returns the
\* mean over the five folds of the mean absolute error, a value >= 0.
C1_ObjectiveIsMeanCVError ==
    /\ pc \in {"cv", "tell"} =>
         /\ reg = ParamsAt(x_cur)
         /\ \A k \in 1..Len(clones) : clones[k] = ParamsAt(x_cur)
         /\ \A k \in 1..cv :
              fold_state[k] = "done" => scores[k] = -FoldMAE(ParamsAt(x_cur), k)
    /\ pc = "tell" =>
         /\ Len(clones) = 5
         /\ y_cur.den = 5
         /\ y_cur.num = FoldMAE(ParamsAt(x_cur), 1) + FoldMAE(ParamsAt(x_cur), 2)
                      + FoldMAE(ParamsAt(x_cur), 3) + FoldMAE(ParamsAt(x_cur), 4)
                      + FoldMAE(ParamsAt(x_cur), 5)
         /\ y_cur.num >= 0

C1_Witness == pc = "tell" /\ x_cur = RecordedBest /\ n_evals >= 1 /\ y_cur.num > 0

\* C2: the statements complete in the order load, estimator, space,
\* objective, optimizer, score, parameters, plot; no objective call happens
\* before dataset, estimator, space and objective exist; nothing is shown
\* before the optimizer has returned its result.
C2_StepsInOrder ==
    /\ \E n \in 0..8 :
         executed = SubSeq(<<"load", "make_reg", "def_space", "def_objective",
                             "call_gp", "show_score", "print_params", "plot">>, 1, n)
    /\ (n_started > 0 \/ pc \in {"ask", "call", "cv_enter", "cv", "tell", "return"}) =>
         /\ {"X", "y", "n_features", "reg", "space", "objective"} \subseteq defined
         /\ Len(executed) >= 4
    /\ pc \in {"ask", "call", "cv_enter", "cv", "tell", "return"} =>
         /\ Len(executed) = 4
         /\ "res_gp" \notin defined
    /\ shown # {} =>
         /\ "res_gp" \in defined
         /\ Len(executed) >= 6
         /\ pc = "notebook"
    /\ "res_gp" \in defined => Len(executed) >= 5

C2_Witness ==
    /\ Len(executed) = 8
    /\ executed[8] = "plot"
    /\ shown = {"best_score", "best_params", "convergence"}

C4_ValuesReachTheirNames ==
    /\ pc \in {"cv_enter", "cv", "tell"} =>
         /\ reg.max_depth = x_cur[1]
         /\ reg.learning_rate = x_cur[2]
         /\ reg.max_features = x_cur[3]
         /\ reg.min_samples_split = x_cur[4]
         /\ reg.min_samples_leaf = x_cur[5]
    /\ "best_params" \in shown =>
         /\ Len(best_params_out) = 5
         /\ best_params_out[1] = <<"max_depth", res_gp.x[1]>>
         /\ best_params_out[2][1] = "learning_rate"
         /\ best_params_out[2][2] * 10 - 5 <= res_gp.x[2]
         /\ res_gp.x[2] < best_params_out[2][2] * 10 + 5
         /\ best_params_out[3] = <<"max_features", res_gp.x[3]>>
         /\ best_params_out[4] = <<"min_samples_split", res_gp.x[4]>>
         /\ best_params_out[5] = <<"min_samples_leaf", res_gp.x[5]>>

C4_Witness == "best_params" \in shown /\ n_evals = n_calls /\ Cardinality(observed) > 1

\* the value of objective(x) when it is the first call on the freshly
\* constructed estimator
FirstCallValue(x) ==
    objective_value(
        [k \in 1..cv |->
            neg_mean_absolute_error(
                set_params(GradientBoostingRegressor, use_named_args(space, x)).est, k)])

\* C5: whatever calls came before, objective(x) returns the value it returns
\* as the first call.
C5_NoStateBetweenCalls ==
    /\ pc = "tell" => y_cur = FirstCallValue(x_cur)
    /\ \A o \in observed : o[2] = FirstCallValue(o[1])

C5_Witness == pc = "tell" /\ n_evals >= 2 /\ last_x # x_cur /\ <<x_cur, y_cur>> \in observed

\* C6: objective calls are strictly sequential, folds run only inside the one
\* call in progress, a call returns only when its five folds are done, and
\* reg is never changed while a fold is running.
C6_FoldsOnlyInsideOneCall ==
    /\ [](/\ n_started - n_evals \in {0, 1}
          /\ (pc \in {"call", "cv_enter", "cv", "tell"}) => n_started = n_evals + 1
          /\ (pc \in {"notebook", "ask", "return"}) => n_started = n_evals
          /\ SomeFoldRunning => pc \in {"cv", "error"}
          /\ pc = "tell" => \A k \in 1..cv : fold_state[k] = "done")
    /\ [][SomeFoldRunning => reg' = reg]_vars
    /\ [][n_started' # n_started => ~SomeFoldRunning]_vars

C6_Witness ==
    /\ pc = "cv"
    /\ n_evals >= 1
    /\ Cardinality({k \in 1..cv : fold_state[k] = "running"}) >= 2
    /\ \E k \in 1..cv : fold_state[k] = "done"

C9_RegHoldsLastPoint ==
    /\ reg.n_estimators = 50
    /\ reg.random_state = 0
    /\ pc = "tell" =>
         <<reg.max_depth, reg.learning_rate, reg.max_features,
           reg.min_samples_split, reg.min_samples_leaf>> = x_cur
    /\ (n_evals >= 1 /\ pc \in {"ask", "return", "notebook"}) =>
         <<reg.max_depth, reg.learning_rate, reg.max_features,
           reg.min_samples_split, reg.min_samples_leaf>> = last_x

\* the run is over and reg is left at the last point, which is not the best
C9_Witness ==
    /\ "convergence" \in shown
    /\ last_x # res_gp.x
    /\ reg.max_depth = last_x[1]

\* C10: a raising evaluation is not caught or retried; the run stops, no
\* further objective call is made, res_gp is never bound and nothing is shown.
C10_ErrorStopsTheRun ==
    /\ [](pc = "error" => ("res_gp" \notin defined /\ shown = {} /\ ip = 5))
    /\ [][(\E k \in 1..cv : fold_state[k] # "raised" /\ fold_state'[k] = "raised")
            => pc' = "error"]_vars
    /\ [][pc = "error" =>
            /\ pc' = "error"
            /\ n_started' = n_started
            /\ n_evals' = n_evals
            /\ reg' = reg
            /\ defined' = defined
            /\ shown' = shown]_vars

C10_Witness ==
    /\ pc = "error"
    /\ n_evals >= 1
    /\ \E k \in 1..cv : fold_state[k] = "raised"

====
